---- MODULE Spec2Model ----
(***************************************************************************)
(* Compilation coordination of typst-lsp (fork with the slint preview):    *)
(* the LSP handlers of src/server/document.rs, the hand-off to the         *)
(* preview in src/server/export.rs and src/main.rs, and the preview's      *)
(* intake / request loops of src/server/ui.rs.                             *)
(***************************************************************************)
EXTENDS Integers, Sequences, FiniteSets, TLC

(* ------------------------------ bounds -------------------------------- *)
MaxTriggers == 2
MaxPages == 2
MaxClicks == 1
MaxRenders == 2
MaxReads == 1
MaxZooms == 2

(* -------------------------- program constants ------------------------- *)
\* main.rs:34  tokio::sync::mpsc::channel(10)
ToUiCapacity == 10
\* ui.rs:147  channel(10)
UiReqCapacity == 10
\* The list layout the preview assumes: the first page starts at ListTop, PageGap lies
\* between two pages (ui.rs:290, 307, 547, 548)
ListTop == 5
PageGap == 10
\* Ui.zoom in tenths: its initial value and the limits of the Zoom request (ui.rs:188, 242)
InitialZoom == 10
MinZoom == 3
MaxZoom == 30

None == "none"
Docs == {"a", "b"}
\* config::ExportPdfMode as matched in on_source_changed
Modes == {"OnType", "OnPinnedMainType", "OnSave"}
Handlers == 1..MaxTriggers

VARIABLES
  mode,      \* config.export_pdf
  pinned,    \* main_url(): the pinned main document, or None
  source,    \* workspace: per document its current [ver, np]; np = 0 does not compile
  edits,     \* number of edits ingested so far (the version counter)
  wsQ,       \* tasks waiting for the workspace RwLock, in arrival order
  wsReaders, \* holders of a read guard of the workspace RwLock
  nTrig,     \* number of triggers that have arrived
  hpc,       \* per handler: its position
  hop,       \* per handler: run_diagnostics_and_export / run_diagnostics / run_export
  huri,      \* per handler: the uri it was called with, then the uri it compiles
  hrange,    \* per handler: first_change_range (TRUE: Some, FALSE: None)
  hnp,       \* per handler: the page count of the text its edit brings, until it is applied
  hsub,      \* per handler: its submission number (0: not submitted)
  hres,      \* per handler: the (document, diagnostics) compile_source returned
  nSub,      \* number of jobs accepted by the worker so far
  queue,     \* the server TypstThread's request channel
  running,   \* the job the server TypstThread executes: <<job>>, or <<>>
  nDone,     \* number of jobs the worker has finished
  lastPub,   \* the diagnostics update_all_diagnostics published last: <<[sub, diag]>>, or <<>>
  nSent,     \* number of NewDocumentMessages sent on to_ui
  sentSub,   \* history: the submission number of the job whose document was sent last
  to_ui,     \* the to_ui channel
  blocked,   \* the main task's thread is stuck in a std Mutex lock()
  uiDoc,     \* Ui.document
  uiUri,     \* Ui.source_uri
  docGuard,  \* a guard of Ui.document is held across an await (by jump_from_click)
  srcGuard,  \* who holds a guard of Ui.source_uri across an await: None, "fut1", "fut2"
  f1pc,      \* the document-intake loop (fut1): "recv", or "jwait" in jump_to_first_change
  f1msg,     \* fut1: the message show_document is working on: <<msg>>, or <<>>
  f2pc,      \* the UI-request loop (fut2): "recv", or where jump_from_click is suspended
  f2job,     \* fut2: jump_from_click's locals: <<[document, page, ...]>>, or <<>>
  uiThread,  \* the preview's own TypstThread: "idle", "queued", "running", "done"
  ui_req,    \* the ui_request channel
  rtasks,    \* the spawned render_page tasks
  stasks,    \* the tasks spawned by jump_to_first_change
  pixbuf,    \* the pixel-buffer channel
  evQ,       \* closures posted to the slint event loop
  utpc,      \* the slint event-loop thread: "idle", or "wait" inside row_data
  utRow,     \* the row row_data is waiting for
  images,    \* LazyImagesModel.images
  viewport,  \* the list viewport's scroll position: the target last scrolled to
  nClicks,   \* clicks made so far
  nRenders,  \* Render requests made so far
  shownSeq,  \* history: the number (in order of sending) of the message show_document installed last
  nShown,    \* history: how many messages show_document has installed
  resetDone, \* history: the [doc, zoom] the reset_all the event loop ran last was posted for
  resetFor,  \* history: the [doc, zoom] each reset_all still to run was posted for, in order
  zoom,      \* Ui.zoom, in tenths
  nZooms,    \* zoom changes made so far
  utRet,     \* what row_data returned last: [row, data], data <<>> for None
  reqd,      \* history: the rows row_data has requested since the cache was last reset
  world,     \* the World of the job the server's worker runs: [io, reads, err]
  failed,    \* history: the handlers whose job had a World read fail
  scrollCall, \* one call of scroll_in_window on its own: its inputs and the viewport offset after it
  pageCall,  \* one page search of jump_from_click on its own: its inputs and the page found
  firstChange \* one call of jump_to_first_change on its own: [old, new, cursor, target]

hVars == <<mode, pinned, source, edits, nTrig, hpc, hop, huri, hrange, hnp,
           hsub, hres, nSub, queue, running, nDone, lastPub, nSent, sentSub>>
worldVars == <<world, failed>>
serverVars == <<hVars, wsQ, wsReaders, worldVars>>
cacheVars == <<zoom, nZooms, utRet, reqd>>
staleVars == <<resetDone, resetFor>>
uiVars == <<uiDoc, uiUri, docGuard, srcGuard, f1pc, f1msg, f2pc, f2job, uiThread, ui_req,
            rtasks, stasks, pixbuf, evQ, utpc, utRow, images, viewport, nClicks, nRenders,
            shownSeq, nShown, cacheVars, staleVars>>
\* the calls modelled on their own
pureVars == <<firstChange, scrollCall, pageCall>>
vars == <<serverVars, to_ui, blocked, uiVars, pureVars>>

(* --------------------------- pure functions --------------------------- *)
\* Option<T>: a sequence of at most one element.
NoDoc == <<>>
Some(x) == <<x>>
NoRes == [doc |-> NoDoc, diag |-> <<>>]

\* The pages of the document compiled from version ver of uri with np pages.
PagesOf(uri, ver, np) == [i \in 1..np |-> <<uri, ver, i>>]

\* The compiler engine on a snapshot: (Option<Arc<Document>>, diagnostics).
Compile(snap) ==
  [doc  |-> IF snap.np = 0 THEN NoDoc
            ELSE Some([uri |-> snap.uri, ver |-> snap.ver,
                       pages |-> PagesOf(snap.uri, snap.ver, snap.np)]),
   diag |-> <<snap.uri, snap.ver>>]

\* An on_source_changed that exports in every mode.
OnSourceChangedAlwaysExports(m, main, uri) ==
  [op |-> "diag_export", uri |-> IF m # "OnType" /\ main # None THEN main ELSE uri]

\* on_source_changed's match on config.export_pdf: the operation and its uri.
OnSourceChanged(m, main, uri) ==
  CASE m = "OnType" -> [op |-> "diag_export", uri |-> uri]
    [] m = "OnPinnedMainType" ->
         IF main # None THEN [op |-> "diag_export", uri |-> main]
                        ELSE [op |-> "diag", uri |-> uri]
    [] OTHER -> [op |-> "diag", uri |-> IF main # None THEN main ELSE uri]

(* ------------------------ the workspace RwLock ------------------------ *)
\* tokio::sync::RwLock is fair: requests are served in arrival order, a reader
\* that arrives behind a waiting writer waits for it.
IsWriter(w) == w[1] = "w"
\* A request made now is granted at once.
GrantedNow(w) == wsQ = <<>> /\ (IsWriter(w) => wsReaders = {})
\* A queued request is granted.
GrantedQueued(w) == wsQ # <<>> /\ Head(wsQ) = w /\ (IsWriter(w) => wsReaders = {})

(* ------------------------------- Init --------------------------------- *)
\* ProjectWorld::new (world/mod.rs:36-43): no read is under way, none has failed.
NoReads == [io |-> FALSE, reads |-> 0, err |-> FALSE]

InitServer ==
  /\ mode \in Modes
  /\ pinned \in {None, "a"}
  /\ source = [d \in Docs |-> [ver |-> 0, np |-> 1]]
  /\ edits = 0
  /\ wsQ = <<>>
  /\ wsReaders = {}
  /\ nTrig = 0
  /\ hpc = [h \in Handlers |-> "none"]
  /\ hop = [h \in Handlers |-> None]
  /\ huri = [h \in Handlers |-> None]
  /\ hrange = [h \in Handlers |-> FALSE]
  /\ hnp = [h \in Handlers |-> 0]
  /\ hsub = [h \in Handlers |-> 0]
  /\ hres = [h \in Handlers |-> NoRes]
  /\ nSub = 0
  /\ queue = <<>>
  /\ running = <<>>
  /\ nDone = 0
  /\ lastPub = <<>>
  /\ nSent = 0
  /\ sentSub = 0
  /\ world = NoReads
  /\ failed = {}

\* Ui::run up to its two loops (ui.rs:147-194), LazyImagesModel::new (ui.rs:45-51).
EmptyDocument == [uri |-> None, ver |-> 0, pages |-> <<>>]

\* row_data has not been called.
NoRowData == [row |-> 0, data |-> <<>>]

InitUi ==
  /\ uiDoc = EmptyDocument
  /\ uiUri = None
  /\ docGuard = FALSE
  /\ srcGuard = None
  /\ f1pc = "recv"
  /\ f1msg = <<>>
  /\ f2pc = "recv"
  /\ f2job = <<>>
  /\ uiThread = "idle"
  /\ ui_req = <<>>
  /\ rtasks = {}
  /\ stasks = {}
  /\ pixbuf = <<>>
  /\ evQ = <<>>
  /\ utpc = "idle"
  /\ utRow = 0
  /\ images = <<>>
  /\ viewport = <<>>
  /\ nClicks = 0
  /\ nRenders = 0
  /\ shownSeq = 0
  /\ nShown = 0
  /\ zoom = InitialZoom
  /\ nZooms = 0
  /\ utRet = NoRowData
  /\ resetDone = [doc |-> EmptyDocument, zoom |-> InitialZoom]
  /\ resetFor = <<>>
  /\ reqd = {}

\* No call of jump_to_first_change is looked at on its own.
NoFirstChange == [old |-> <<>>, new |-> <<>>, cursor |-> None, target |-> <<>>, done |-> TRUE]

\* No call of scroll_in_window and no page search is looked at on its own.
NoScrollCall == [heights |-> <<>>, page |-> 0, y |-> 0, scale |-> 0, viewport_y |-> 0,
                 visible_height |-> 0, after |-> 0, done |-> TRUE]
NoPageCall == [heights |-> <<>>, scale |-> 0, listview_y |-> 0, found |-> <<>>, done |-> TRUE]

Init ==
  /\ InitServer
  /\ to_ui = <<>>
  /\ blocked = FALSE
  /\ InitUi
  /\ firstChange = NoFirstChange
  /\ scrollCall = NoScrollCall
  /\ pageCall = NoPageCall

(* ------------------- edit ingestion (did_change) ---------------------- *)
\* The body of an ingested edit of document d: the workspace write, then
\* on_source_changed up to its match (document.rs:14-32).
Ingest(h, d, np) ==
  LET t == OnSourceChanged(mode, pinned, d)
  IN  /\ edits' = edits + 1
      /\ source' = [source EXCEPT ![d] = [ver |-> edits + 1, np |-> np]]
      /\ hop' = [hop EXCEPT ![h] = t.op]
      /\ huri' = [huri EXCEPT ![h] = t.uri]
      /\ hpc' = [hpc EXCEPT ![h] = "start"]

\* A text change of document d arrives: its handler asks for the write lock and,
\* when no guard is out, applies the edit at once.
EditArrive(h, d, rng, np) ==
  /\ ~blocked
  /\ h = nTrig + 1 /\ h <= MaxTriggers
  /\ nTrig' = h
  /\ hrange' = [hrange EXCEPT ![h] = rng]
  /\ IF GrantedNow(<<"w", h>>)
     THEN Ingest(h, d, np) /\ UNCHANGED <<wsQ, hnp>>
     ELSE /\ wsQ' = Append(wsQ, <<"w", h>>)
          /\ huri' = [huri EXCEPT ![h] = d]
          /\ hnp' = [hnp EXCEPT ![h] = np]
          /\ hpc' = [hpc EXCEPT ![h] = "wwait"]
          /\ UNCHANGED <<source, edits, hop>>
  /\ UNCHANGED <<pureVars, worldVars, mode, pinned, wsReaders, hsub, hres, nSub, queue,
                 running, nDone, lastPub, nSent, sentSub, to_ui, blocked, uiVars>>

\* The write lock is granted to a waiting edit.
EditIngest(h) ==
  /\ ~blocked
  /\ hpc[h] = "wwait"
  /\ GrantedQueued(<<"w", h>>)
  /\ wsQ' = Tail(wsQ)
  /\ Ingest(h, huri[h], hnp[h])
  /\ hnp' = [hnp EXCEPT ![h] = 0]
  /\ UNCHANGED <<pureVars, worldVars, mode, pinned, wsReaders, nTrig, hrange, hsub, hres, nSub, queue,
                 running, nDone, lastPub, nSent, sentSub, to_ui, blocked, uiVars>>

\* The export command: run_export(uri) (document.rs:37).
ExportArrive(h, d) ==
  /\ ~blocked
  /\ h = nTrig + 1 /\ h <= MaxTriggers
  /\ nTrig' = h
  /\ hop' = [hop EXCEPT ![h] = "export"]
  /\ huri' = [huri EXCEPT ![h] = d]
  /\ hpc' = [hpc EXCEPT ![h] = "start"]
  /\ UNCHANGED <<pureVars, worldVars, mode, pinned, source, edits, wsQ, wsReaders, hrange, hnp, hsub, hres, nSub,
                 queue, running, nDone, lastPub, nSent, sentSub, to_ui, blocked, uiVars>>

(* ------------------ compile_source and the worker --------------------- *)
\* The job compile_source hands to the TypstThread: the main source snapshot
\* taken under the read guard the job's Project keeps.
Job(h) == [h |-> h, sub |-> nSub + 1, uri |-> huri[h],
           ver |-> source[huri[h]].ver, np |-> source[huri[h]].np]

\* The worker's channel after the job of h is sent on it.
Enqueue(q, job) == Append(q, job)

\* thread_with_world got its read guard: snapshot, build the job, send it.
Submit(h) ==
  /\ wsReaders' = wsReaders \cup {<<"job", h>>}
  /\ queue' = Enqueue(queue, Job(h))
  /\ nSub' = nSub + 1
  /\ hsub' = [hsub EXCEPT ![h] = nSub + 1]
  /\ hpc' = [hpc EXCEPT ![h] = "wait"]

\* compile_source as a coalescing coordinator would have it: the new job takes
\* the place of the jobs of the same main document that have not started yet.
CompileSourceCoalescing(h) ==
  /\ ~blocked
  /\ hpc[h] = "start"
  /\ IF GrantedNow(<<"r", h>>)
     THEN /\ wsReaders' = wsReaders \cup {<<"job", h>>}
          /\ queue' = Append(SelectSeq(queue, LAMBDA j : j.uri # huri[h]), Job(h))
          /\ nSub' = nSub + 1
          /\ hsub' = [hsub EXCEPT ![h] = nSub + 1]
          /\ hpc' = [hpc EXCEPT ![h] = "wait"]
          /\ UNCHANGED wsQ
     ELSE /\ wsQ' = Append(wsQ, <<"r", h>>)
          /\ hpc' = [hpc EXCEPT ![h] = "rwait"]
          /\ UNCHANGED <<wsReaders, queue, nSub, hsub>>
  /\ UNCHANGED <<pureVars, worldVars, mode, pinned, source, edits, nTrig, hop, huri, hrange, hnp, hres,
                 running, nDone, lastPub, nSent, sentSub, to_ui, blocked, uiVars>>

\* compile_source(uri) is called (document.rs:38,52,65).
CompileSource(h) ==
  /\ ~blocked
  /\ hpc[h] = "start"
  /\ IF GrantedNow(<<"r", h>>)
     THEN Submit(h) /\ UNCHANGED wsQ
     ELSE /\ wsQ' = Append(wsQ, <<"r", h>>)
          /\ hpc' = [hpc EXCEPT ![h] = "rwait"]
          /\ UNCHANGED <<wsReaders, queue, nSub, hsub>>
  /\ UNCHANGED <<pureVars, worldVars, mode, pinned, source, edits, nTrig, hop, huri, hrange, hnp, hres,
                 running, nDone, lastPub, nSent, sentSub, to_ui, blocked, uiVars>>

\* The read lock is granted to a compile_source that waited for it.
CompileSourceGranted(h) ==
  /\ ~blocked
  /\ hpc[h] = "rwait"
  /\ GrantedQueued(<<"r", h>>)
  /\ wsQ' = Tail(wsQ)
  /\ Submit(h)
  /\ UNCHANGED <<pureVars, worldVars, mode, pinned, source, edits, nTrig, hop, huri, hrange, hnp, hres,
                 running, nDone, lastPub, nSent, sentSub, to_ui, blocked, uiVars>>

\* A worker that takes the job sent last.
NextJobNewest(q) == Len(q)

\* The position in the channel of the job the worker takes next.
NextJob(q) == 1

\* The engine with the World of the job: a read that returned a FileError fails
\* the compilation, the error is among the diagnostics and there is no document.
CompileInWorld(snap, w) ==
  IF w.err THEN [doc |-> NoDoc, diag |-> <<snap.uri, snap.ver, "file">>]
  ELSE Compile(snap)

\* A Project that has to take the workspace read lock again for each read.
WorldReadRelocks(job) == {<<"r", job.h>>}

\* The workspace lock requests a World read has to be granted: none, the Project
\* reads through the read guard it was built with (ui.rs:267-270, world/mod.rs:69,75).
WorldReadLocks(job) == {}

\* A World whose failed read leaves no error value behind.
AfterWorldReadDropsError(w, ok) == [w EXCEPT !.io = FALSE]

\* The World after a read returned (world/mod.rs:67-77): Ok, or the FsError
\* converted into a FileError by report_and_convert and handed to the engine.
AfterWorldRead(w, ok) == [w EXCEPT !.io = FALSE, !.err = w.err \/ ~ok]

\* World::source / World::file / World::packages (world/mod.rs:67-77, 89-91): the
\* engine asks for a file and the worker's thread blocks in handle.block_on.
WorldRead ==
  /\ running # <<>>
  /\ ~world.io
  /\ world.reads < MaxReads
  /\ world' = [world EXCEPT !.io = TRUE, !.reads = world.reads + 1]
  /\ UNCHANGED <<pureVars, failed, hVars, wsQ, wsReaders, to_ui, blocked, uiVars>>

\* The asynchronous read completes, well (ok) or with an FsError, and block returns.
WorldReadDone(ok) ==
  /\ running # <<>>
  /\ world.io
  /\ \A w \in WorldReadLocks(running[1]) : GrantedNow(w)
  /\ world' = AfterWorldRead(world, ok)
  /\ failed' = IF ok THEN failed ELSE failed \cup {running[1].h}
  /\ UNCHANGED <<pureVars, hVars, wsQ, wsReaders, to_ui, blocked, uiVars>>

\* The server's TypstThread takes a job and calls the engine.
WorkerStart ==
  /\ running = <<>>
  /\ queue # <<>>
  /\ running' = <<queue[NextJob(queue)]>>
  /\ queue' = [i \in 1..(Len(queue) - 1) |->
                 IF i < NextJob(queue) THEN queue[i] ELSE queue[i + 1]]
  /\ UNCHANGED <<pureVars, worldVars, mode, pinned, source, edits, wsQ, wsReaders, nTrig, hpc, hop, huri, hrange, hnp,
                 hsub, hres, nSub, nDone, lastPub, nSent, sentSub, to_ui, blocked, uiVars>>

\* The engine returns: the job (and its read guard) is dropped, the response is sent.
WorkerFinish ==
  /\ running # <<>>
  /\ ~world.io
  /\ hres' = [hres EXCEPT ![running[1].h] = CompileInWorld(running[1], world)]
  /\ hpc' = [hpc EXCEPT ![running[1].h] = "got"]
  /\ wsReaders' = wsReaders \ {<<"job", running[1].h>>}
  /\ nDone' = nDone + 1
  /\ running' = <<>>
  /\ world' = NoReads
  /\ UNCHANGED <<pureVars, failed, mode, pinned, source, edits, wsQ, nTrig, hop, huri, hrange, hnp,
                 hsub, nSub, queue, lastPub, nSent, sentSub, to_ui, blocked, uiVars>>

(* --------------------- after compile_source returned ------------------ *)
\* Whether the operation publishes the diagnostics it got (update_all_diagnostics).
Publishes(op) == op \in {"diag_export", "diag"}

\* The operations without their bail!(): no document ends in Ok(()).
AfterCompileTargetNoBail(op, doc) ==
  CASE op = "diag" -> "ok"
    [] doc # NoDoc -> "export"
    [] OTHER -> "ok"

\* The operations without their match on the document: export_pdf is always called.
AfterCompileTargetNoMatch(op, doc) ==
  CASE op = "diag" -> "ok"
    [] OTHER -> "export"

\* Where the operation goes with the document it got: to export_pdf, to its
\* Ok(()) or to its bail!().
AfterCompileTarget(op, doc) ==
  CASE op = "diag" -> "ok"
    [] doc # NoDoc -> "export"
    [] OTHER -> "err"

\* The handler has returned: its locals are gone.
Return(h, how) ==
  /\ hpc' = [hpc EXCEPT ![h] = how]
  /\ hres' = [hres EXCEPT ![h] = NoRes]
  /\ hsub' = [hsub EXCEPT ![h] = 0]
  /\ hrange' = [hrange EXCEPT ![h] = FALSE]

\* run_diagnostics_and_export / run_diagnostics / run_export resume with the
\* result (document.rs:39-42, 54-59, 67).
AfterCompile(h) ==
  /\ ~blocked
  /\ hpc[h] = "got"
  /\ lastPub' = IF Publishes(hop[h]) THEN <<[sub |-> hsub[h], diag |-> hres[h].diag]>>
                ELSE lastPub
  /\ IF AfterCompileTarget(hop[h], hres[h].doc) = "export"
     THEN hpc' = [hpc EXCEPT ![h] = "export"] /\ UNCHANGED <<hres, hsub, hrange>>
     ELSE Return(h, AfterCompileTarget(hop[h], hres[h].doc))
  /\ UNCHANGED <<pureVars, worldVars, mode, pinned, source, edits, wsQ, wsReaders, nTrig, hop, huri, hnp,
                 nSub, queue, running, nDone, nSent, sentSub, to_ui, blocked, uiVars>>

\* The NewDocumentMessage export_pdf hands to the preview (export.rs:27-29, ui.rs:129-133).
NewDocumentMessage(h) ==
  [seq |-> nSent + 1, sub |-> hsub[h], document |-> hres[h].doc[1], source_uri |-> huri[h],
   range |-> IF hop[h] = "export" THEN FALSE ELSE hrange[h]]

\* scope_with_source returned: the message goes on the to_ui channel.
SendToUi(h) ==
  /\ Len(to_ui) < ToUiCapacity
  /\ to_ui' = Append(to_ui, NewDocumentMessage(h))
  /\ nSent' = nSent + 1
  /\ sentSub' = hsub[h]
  /\ Return(h, "ok")

\* export_pdf (export.rs:12-32): read the source under the workspace read lock,
\* then hand the document to the preview.
ExportPdf(h) ==
  /\ ~blocked
  /\ hpc[h] = "export"
  /\ IF GrantedNow(<<"x", h>>)
     THEN SendToUi(h) /\ UNCHANGED wsQ
     ELSE /\ wsQ' = Append(wsQ, <<"x", h>>)
          /\ hpc' = [hpc EXCEPT ![h] = "xwait"]
          /\ UNCHANGED <<to_ui, nSent, sentSub, hres, hsub, hrange>>
  /\ UNCHANGED <<pureVars, worldVars, mode, pinned, source, edits, wsReaders, nTrig, hop, huri, hnp,
                 nSub, queue, running, nDone, lastPub, blocked, uiVars>>

ExportPdfGranted(h) ==
  /\ ~blocked
  /\ hpc[h] = "xwait"
  /\ GrantedQueued(<<"x", h>>)
  /\ wsQ' = Tail(wsQ)
  /\ SendToUi(h)
  /\ UNCHANGED <<pureVars, worldVars, mode, pinned, source, edits, wsReaders, nTrig, hop, huri, hnp,
                 nSub, queue, running, nDone, lastPub, blocked, uiVars>>

(* ------------------ preview: the document-intake loop ----------------- *)
\* fut1 draining the channel but keeping the message it received first.
SkipAheadKeepFirst(msg, chan) == msg

\* The inner loop of fut1 (ui.rs:202-205): while try_recv() yields a message, take it.
RECURSIVE SkipAhead(_, _)
SkipAhead(msg, chan) == IF chan = <<>> THEN msg ELSE SkipAhead(Head(chan), Tail(chan))

\* A replacement page by page, seen after its first page: the other pages the
\* old document had are still the old ones.
InstallDocumentInPlace(old, new) ==
  [new EXCEPT !.pages = [i \in 1..Len(new.pages) |->
                           IF i = 1 \/ i > Len(old.pages) THEN new.pages[i] ELSE old.pages[i]]]

\* *self.document.lock().unwrap() = new_doc (ui.rs:465)
InstallDocument(old, new) == new

\* The closure show_document posts: model.reset_all(new_len) (ui.rs:468-472).
ResetClosure(n) == [kind |-> "reset", n |-> n, tgt |-> <<>>]
\* The closure scroll_in_window posts for a position in document doc (ui.rs:538-562).
ScrollClosure(doc) == [kind |-> "scroll", n |-> 0, tgt |-> <<doc.uri, doc.ver>>]

\* The task jump_to_first_change spawns (ui.rs:493-500).
ScrollTaskOf(msg, doc, uri) ==
  [seq |-> msg.seq, document |-> doc, uri |-> uri, srcver |-> source[uri].ver]

\* fut1 receives, skips ahead and runs show_document up to its first suspension
\* (ui.rs:198-208, 457-489).
F1Recv ==
  /\ ~blocked
  /\ f1pc = "recv"
  /\ to_ui # <<>>
  /\ to_ui' = <<>>
  /\ LET msg == SkipAhead(Head(to_ui), Tail(to_ui))
         doc == InstallDocument(uiDoc, msg.document)
     IN IF docGuard
        THEN \* self.document.lock() while jump_from_click, suspended in this very task, holds it
             /\ blocked' = TRUE
             /\ f1pc' = "lock"
             /\ f1msg' = <<msg>>
             /\ UNCHANGED <<uiDoc, uiUri, evQ, stasks, wsQ, srcGuard, shownSeq, nShown, resetFor>>
        ELSE /\ uiDoc' = doc
             /\ shownSeq' = msg.seq
             /\ nShown' = nShown + 1
             /\ uiUri' = msg.source_uri
             /\ evQ' = Append(evQ, ResetClosure(Len(msg.document.pages)))
             /\ resetFor' = Append(resetFor, [doc |-> doc, zoom |-> zoom])
             /\ UNCHANGED blocked
             /\ IF ~msg.range
                THEN UNCHANGED <<f1pc, f1msg, stasks, wsQ, srcGuard>>
                ELSE IF GrantedNow(<<"ui1", 0>>)
                THEN /\ stasks' = stasks \cup {ScrollTaskOf(msg, doc, msg.source_uri)}
                     /\ UNCHANGED <<f1pc, f1msg, wsQ, srcGuard>>
                ELSE /\ wsQ' = Append(wsQ, <<"ui1", 0>>)
                     /\ srcGuard' = "fut1"
                     /\ f1pc' = "jwait"
                     /\ f1msg' = <<msg>>
                     /\ UNCHANGED stasks
  /\ UNCHANGED <<pureVars, resetDone, cacheVars, worldVars, hVars, wsReaders, docGuard, f2pc, f2job, uiThread, ui_req, rtasks, pixbuf,
                 utpc, utRow, images, viewport, nClicks, nRenders>>

\* jump_to_first_change gets its read guard (ui.rs:487-500).
F1JumpGranted ==
  /\ ~blocked
  /\ f1pc = "jwait"
  /\ GrantedQueued(<<"ui1", 0>>)
  /\ wsQ' = Tail(wsQ)
  /\ srcGuard' = None
  /\ stasks' = stasks \cup {ScrollTaskOf(f1msg[1], uiDoc, uiUri)}
  /\ f1pc' = "recv"
  /\ f1msg' = <<>>
  /\ UNCHANGED <<pureVars, staleVars, cacheVars, worldVars, hVars, wsReaders, to_ui, blocked, uiDoc, uiUri, docGuard, f2pc, f2job,
                 uiThread, ui_req, rtasks, pixbuf, evQ, utpc, utRow, images, viewport,
                 nClicks, nRenders, shownSeq, nShown>>

\* The spawned task: jump_from_cursor, then scroll_in_window when it found a position.
ScrollTask(t, hit) ==
  /\ t \in stasks
  /\ stasks' = stasks \ {t}
  /\ evQ' = IF hit THEN Append(evQ, ScrollClosure(t.document)) ELSE evQ
  /\ UNCHANGED <<pureVars, staleVars, cacheVars, serverVars, to_ui, blocked, uiDoc, uiUri, docGuard, srcGuard, f1pc, f1msg,
                 f2pc, f2job, uiThread, ui_req, rtasks, pixbuf, utpc, utRow, images,
                 viewport, nClicks, nRenders, shownSeq, nShown>>

(* -------------------- preview: the UI-request loop -------------------- *)
\* A Render branch that renders the first page whatever page was asked for.
RenderTaskFirstPage(doc, z, req) == [document |-> doc, zoom |-> z, page |-> 1]

\* The render_page task the Render branch spawns (ui.rs:219-233).
RenderTask(doc, z, req) == [document |-> doc, zoom |-> z, page |-> req.arg]

\* UiRequest::Render(page_index) (ui.rs:215-235): snapshot the document, spawn render_page.
F2Render ==
  /\ ~blocked
  /\ f2pc = "recv"
  /\ ui_req # <<>>
  /\ Head(ui_req).kind = "Render"
  /\ ui_req' = Tail(ui_req)
  /\ rtasks' = rtasks \cup {RenderTask(uiDoc, zoom, Head(ui_req))}
  /\ UNCHANGED <<pureVars, staleVars, cacheVars, serverVars, to_ui, blocked, uiDoc, uiUri, docGuard, srcGuard, f1pc, f1msg,
                 f2pc, f2job, uiThread, stasks, pixbuf, evQ, utpc, utRow, images,
                 viewport, nClicks, nRenders, shownSeq, nShown>>

\* render_page (ui.rs:565-588): pages.get(page_index).unwrap() panics past the
\* last page, and then nothing is sent.
RenderPage(t) ==
  /\ t \in rtasks
  /\ rtasks' = rtasks \ {t}
  /\ pixbuf' = IF t.page <= Len(t.document.pages)
               THEN Append(pixbuf, [page |-> t.document.pages[t.page], zoom |-> t.zoom])
               ELSE pixbuf
  /\ UNCHANGED <<pureVars, staleVars, cacheVars, serverVars, to_ui, blocked, uiDoc, uiUri, docGuard, srcGuard, f1pc, f1msg,
                 f2pc, f2job, uiThread, ui_req, stasks, evQ, utpc, utRow, images,
                 viewport, nClicks, nRenders, shownSeq, nShown>>

\* The page a click in list slot k falls on (ui.rs:286-313): 0 when it is below the last page.
FindPage(doc, k) == IF k <= Len(doc.pages) THEN k ELSE 0

\* thread_with_world handing over a world that does not keep the read guard.
ClickRunNoGuard(doc, k) ==
  /\ wsReaders' = wsReaders
  /\ f2job' = <<[document |-> doc, page |-> k, uri |-> uiUri,
                 srcver |-> source[uiUri].ver, jump |-> "none"]>>
  /\ uiThread' = "queued"
  /\ f2pc' = "crun"

\* thread_with_world got its read guard (ui.rs:267-278) and the closure is sent
\* to the preview's TypstThread (ui.rs:319-335).
ClickRun(doc, k) ==
  /\ wsReaders' = wsReaders \cup {<<"uijob", 0>>}
  /\ f2job' = <<[document |-> doc, page |-> k, uri |-> uiUri,
                 srcver |-> source[uiUri].ver, jump |-> "none"]>>
  /\ uiThread' = "queued"
  /\ f2pc' = "crun"

\* A jump_from_click that clones the document and lets go of its guard at once.
F2ClickReleasing ==
  /\ ~blocked
  /\ f2pc = "recv"
  /\ ui_req # <<>>
  /\ Head(ui_req).kind = "Click"
  /\ ui_req' = Tail(ui_req)
  /\ LET k == FindPage(uiDoc, Head(ui_req).arg)
     IN IF k = 0
        THEN UNCHANGED <<docGuard, srcGuard, blocked, f2pc, f2job, uiThread, wsQ, wsReaders>>
        ELSE /\ docGuard' = FALSE
             /\ IF srcGuard = "fut1"
                THEN \* self.source_uri.lock() while jump_to_first_change holds it
                     /\ blocked' = TRUE
                     /\ f2pc' = "lock"
                     /\ UNCHANGED <<srcGuard, f2job, uiThread, wsQ, wsReaders>>
                ELSE IF GrantedNow(<<"ui2", 0>>)
                THEN ClickRun(uiDoc, k) /\ UNCHANGED <<srcGuard, blocked, wsQ>>
                ELSE /\ wsQ' = Append(wsQ, <<"ui2", 0>>)
                     /\ srcGuard' = "fut2"
                     /\ f2pc' = "cwait"
                     /\ f2job' = <<[document |-> uiDoc, page |-> k, uri |-> uiUri,
                                    srcver |-> 0, jump |-> "none"]>>
                     /\ UNCHANGED <<blocked, uiThread, wsReaders>>
  /\ UNCHANGED <<pureVars, staleVars, cacheVars, worldVars, hVars, to_ui, uiDoc, uiUri, f1pc, f1msg, rtasks, stasks, pixbuf, evQ,
                 utpc, utRow, images, viewport, nClicks, nRenders, shownSeq, nShown>>

\* UiRequest::JumpFromClick (ui.rs:236-239, 281-335), up to its first suspension.
F2Click ==
  /\ ~blocked
  /\ f2pc = "recv"
  /\ ui_req # <<>>
  /\ Head(ui_req).kind = "Click"
  /\ ui_req' = Tail(ui_req)
  /\ LET k == FindPage(uiDoc, Head(ui_req).arg)
     IN IF k = 0
        THEN UNCHANGED <<docGuard, srcGuard, blocked, f2pc, f2job, uiThread, wsQ, wsReaders>>
        ELSE /\ docGuard' = TRUE
             /\ IF srcGuard = "fut1"
                THEN \* self.source_uri.lock() while jump_to_first_change holds it
                     /\ blocked' = TRUE
                     /\ f2pc' = "lock"
                     /\ UNCHANGED <<srcGuard, f2job, uiThread, wsQ, wsReaders>>
                ELSE IF GrantedNow(<<"ui2", 0>>)
                THEN ClickRun(uiDoc, k) /\ UNCHANGED <<srcGuard, blocked, wsQ>>
                ELSE /\ wsQ' = Append(wsQ, <<"ui2", 0>>)
                     /\ srcGuard' = "fut2"
                     /\ f2pc' = "cwait"
                     /\ f2job' = <<[document |-> uiDoc, page |-> k, uri |-> uiUri,
                                    srcver |-> 0, jump |-> "none"]>>
                     /\ UNCHANGED <<blocked, uiThread, wsReaders>>
  /\ UNCHANGED <<pureVars, staleVars, cacheVars, worldVars, hVars, to_ui, uiDoc, uiUri, f1pc, f1msg, rtasks, stasks, pixbuf, evQ,
                 utpc, utRow, images, viewport, nClicks, nRenders, shownSeq, nShown>>

F2ClickGranted ==
  /\ ~blocked
  /\ f2pc = "cwait"
  /\ GrantedQueued(<<"ui2", 0>>)
  /\ wsQ' = Tail(wsQ)
  /\ srcGuard' = None
  /\ ClickRun(f2job[1].document, f2job[1].page)
  /\ UNCHANGED <<pureVars, staleVars, cacheVars, worldVars, hVars, to_ui, blocked, uiDoc, uiUri, docGuard, f1pc, f1msg, ui_req, rtasks,
                 stasks, pixbuf, evQ, utpc, utRow, images, viewport, nClicks, nRenders, shownSeq, nShown>>

\* The preview's TypstThread takes the closure and calls typst_ide::jump_from_click.
UiThreadStart ==
  /\ uiThread = "queued"
  /\ uiThread' = "running"
  /\ UNCHANGED <<pureVars, staleVars, cacheVars, serverVars, to_ui, blocked, uiDoc, uiUri, docGuard, srcGuard, f1pc, f1msg,
                 f2pc, f2job, ui_req, rtasks, stasks, pixbuf, evQ, utpc, utRow, images,
                 viewport, nClicks, nRenders, shownSeq, nShown>>

\* The query returns a jump (or none); the world and its read guard are dropped.
UiThreadFinish(jump) ==
  /\ uiThread = "running"
  /\ uiThread' = "done"
  /\ f2job' = <<[f2job[1] EXCEPT !.jump = jump]>>
  /\ wsReaders' = wsReaders \ {<<"uijob", 0>>}
  /\ UNCHANGED <<pureVars, staleVars, cacheVars, worldVars, hVars, wsQ, to_ui, blocked, uiDoc, uiUri, docGuard, srcGuard, f1pc, f1msg,
                 f2pc, ui_req, rtasks, stasks, pixbuf, evQ, utpc, utRow, images,
                 viewport, nClicks, nRenders, shownSeq, nShown>>

\* jump_from_click resumes with the jump (ui.rs:337-454).
F2ClickResult ==
  /\ ~blocked
  /\ f2pc = "crun"
  /\ uiThread = "done"
  /\ uiThread' = "idle"
  /\ LET jump == f2job[1].jump
     IN CASE jump \in {"none", "position"} ->
               /\ evQ' = IF jump = "position" THEN Append(evQ, ScrollClosure(f2job[1].document))
                         ELSE evQ
               /\ f2pc' = "recv"
               /\ f2job' = <<>>
               /\ docGuard' = FALSE
               /\ UNCHANGED wsQ
          [] jump = "source" ->
               /\ IF GrantedNow(<<"ui3", 0>>)
                  THEN f2pc' = "cshow" /\ UNCHANGED wsQ
                  ELSE f2pc' = "swait" /\ wsQ' = Append(wsQ, <<"ui3", 0>>)
               /\ UNCHANGED <<evQ, f2job, docGuard>>
          [] OTHER ->
               /\ f2pc' = "cshow"
               /\ UNCHANGED <<evQ, f2job, docGuard, wsQ>>
  /\ UNCHANGED <<pureVars, staleVars, cacheVars, worldVars, hVars, wsReaders, to_ui, blocked, uiDoc, uiUri, srcGuard, f1pc, f1msg,
                 ui_req, rtasks, stasks, pixbuf, utpc, utRow, images, viewport,
                 nClicks, nRenders, shownSeq, nShown>>

\* Jump::Source gets its read guard (ui.rs:350-376), then awaits client.show_document.
F2SourceGranted ==
  /\ ~blocked
  /\ f2pc = "swait"
  /\ GrantedQueued(<<"ui3", 0>>)
  /\ wsQ' = Tail(wsQ)
  /\ f2pc' = "cshow"
  /\ UNCHANGED <<pureVars, staleVars, cacheVars, worldVars, hVars, wsReaders, to_ui, blocked, uiDoc, uiUri, docGuard, srcGuard, f1pc,
                 f1msg, f2job, uiThread, ui_req, rtasks, stasks, pixbuf, evQ, utpc, utRow,
                 images, viewport, nClicks, nRenders, shownSeq, nShown>>

\* client.show_document(params) answers (ui.rs:401-404, 449-452): jump_from_click returns.
F2ShowDone ==
  /\ ~blocked
  /\ f2pc = "cshow"
  /\ f2pc' = "recv"
  /\ f2job' = <<>>
  /\ docGuard' = FALSE
  /\ UNCHANGED <<pureVars, staleVars, cacheVars, serverVars, to_ui, blocked, uiDoc, uiUri, srcGuard, f1pc, f1msg, uiThread,
                 ui_req, rtasks, stasks, pixbuf, evQ, utpc, utRow, images, viewport,
                 nClicks, nRenders, shownSeq, nShown>>

(* ------------------ preview: the slint event-loop thread -------------- *)
\* A reset_all that resizes the cache and keeps the images it holds.
ResetAllKeepsImages(n) == [i \in 1..n |-> IF i <= Len(images) THEN images[i] ELSE <<>>]

\* A reset_all that empties the entries but keeps the length the cache has.
ResetAllKeepsLength(n) == [i \in 1..Len(images) |-> <<>>]

\* LazyImagesModel::reset_all (ui.rs:66-71)
ResetAll(n) == [i \in 1..n |-> <<>>]

\* row_data(row) (ui.rs:81-99): None for a row outside the cache, the cached
\* image for a filled entry; for an empty entry the page is requested and the
\* event-loop thread blocks in pixelbuffer_rx.recv().
UtRowData(row) ==
  /\ utpc = "idle"
  /\ IF row \notin 1..Len(images)
     THEN /\ utRet' = [row |-> row, data |-> <<>>]
          /\ UNCHANGED <<ui_req, utpc, utRow, nRenders, reqd>>
     ELSE IF images[row] # <<>>
     THEN /\ utRet' = [row |-> row, data |-> images[row]]
          /\ UNCHANGED <<ui_req, utpc, utRow, nRenders, reqd>>
     ELSE /\ nRenders < MaxRenders
          /\ Len(ui_req) < UiReqCapacity
          /\ ui_req' = Append(ui_req, [kind |-> "Render", arg |-> row])
          /\ utpc' = "wait"
          /\ utRow' = row
          /\ nRenders' = nRenders + 1
          /\ reqd' = reqd \cup {row}
          /\ UNCHANGED utRet
  /\ UNCHANGED <<pureVars, staleVars, zoom, nZooms, serverVars, to_ui, blocked, uiDoc, uiUri, docGuard, srcGuard,
                 f1pc, f1msg, f2pc, f2job, uiThread, rtasks, stasks, pixbuf, evQ, images,
                 viewport, nClicks, shownSeq, nShown>>

\* row_data receives the pixel buffer, caches it and returns it (ui.rs:93-98).
UtPixbuf ==
  /\ utpc = "wait"
  /\ pixbuf # <<>>
  /\ images' = [images EXCEPT ![utRow] = <<Head(pixbuf)>>]
  /\ utRet' = [row |-> utRow, data |-> <<Head(pixbuf)>>]
  /\ pixbuf' = Tail(pixbuf)
  /\ utpc' = "idle"
  /\ utRow' = 0
  /\ UNCHANGED <<pureVars, staleVars, zoom, nZooms, reqd, serverVars, to_ui, blocked, uiDoc, uiUri, docGuard,
                 srcGuard, f1pc, f1msg, f2pc, f2job, uiThread, ui_req, rtasks, stasks, evQ,
                 viewport, nClicks, nRenders, shownSeq, nShown>>

\* reset_all writing the viewport offset back to the top of the list.
ViewportAfterToTop(ev, vp) == IF ev.kind = "reset" THEN <<>> ELSE ev.tgt

\* The viewport offset after the event loop ran closure ev: reset_all (ui.rs:66-71)
\* does not write it, the closure of scroll_in_window (ui.rs:538-562) sets it.
ViewportAfter(ev, vp) == IF ev.kind = "reset" THEN vp ELSE ev.tgt

\* The event loop runs a posted closure.
UtEvent ==
  /\ utpc = "idle"
  /\ evQ # <<>>
  /\ evQ' = Tail(evQ)
  /\ images' = IF Head(evQ).kind = "reset" THEN ResetAll(Head(evQ).n) ELSE images
  /\ viewport' = ViewportAfter(Head(evQ), viewport)
  /\ reqd' = IF Head(evQ).kind = "reset" THEN {} ELSE reqd
  /\ IF Head(evQ).kind = "reset"
     THEN resetDone' = Head(resetFor) /\ resetFor' = Tail(resetFor)
     ELSE UNCHANGED <<resetDone, resetFor>>
  /\ UNCHANGED <<pureVars, zoom, nZooms, utRet, serverVars, to_ui, blocked, uiDoc, uiUri, docGuard, srcGuard, f1pc, f1msg,
                 f2pc, f2job, uiThread, ui_req, rtasks, stasks, pixbuf, utpc, utRow,
                 nClicks, nRenders, shownSeq, nShown>>

\* on_clicked (ui.rs:171-175): a click in list slot k.
UtClick(k) ==
  /\ utpc = "idle"
  /\ nClicks < MaxClicks
  /\ Len(ui_req) < UiReqCapacity
  /\ ui_req' = Append(ui_req, [kind |-> "Click", arg |-> k])
  /\ nClicks' = nClicks + 1
  /\ UNCHANGED <<pureVars, staleVars, cacheVars, serverVars, to_ui, blocked, uiDoc, uiUri, docGuard, srcGuard, f1pc, f1msg,
                 f2pc, f2job, uiThread, rtasks, stasks, pixbuf, evQ, utpc, utRow, images,
                 viewport, nRenders, shownSeq, nShown>>

\* A Zoom request that clamps the value as it comes, sign included.
ClampZoomSigned(z) ==
  LET b == IF z < MinZoom THEN MinZoom ELSE z
  IN  IF b > MaxZoom THEN MaxZoom ELSE b

\* The zoom a Zoom request sets (ui.rs:242): zoom.abs().max(0.3).min(3.0)
ClampZoom(z) ==
  LET a == IF z < 0 THEN 0 - z ELSE z
      b == IF a < MinZoom THEN MinZoom ELSE a
  IN  IF b > MaxZoom THEN MaxZoom ELSE b

\* on_zoom_changed (ui.rs:165-169): the window asks for zoom z.
UtZoom(z) ==
  /\ utpc = "idle"
  /\ nZooms < MaxZooms
  /\ Len(ui_req) < UiReqCapacity
  /\ ui_req' = Append(ui_req, [kind |-> "Zoom", arg |-> z])
  /\ nZooms' = nZooms + 1
  /\ UNCHANGED <<pureVars, staleVars, zoom, utRet, reqd, serverVars, to_ui, blocked, uiDoc, uiUri, docGuard,
                 srcGuard, f1pc, f1msg, f2pc, f2job, uiThread, rtasks, stasks, pixbuf, evQ,
                 utpc, utRow, images, viewport, nClicks, nRenders, shownSeq, nShown>>

\* UiRequest::Zoom (ui.rs:240-250): set the zoom, post reset_all(number_pages).
F2Zoom ==
  /\ ~blocked
  /\ f2pc = "recv"
  /\ ui_req # <<>>
  /\ Head(ui_req).kind = "Zoom"
  /\ ui_req' = Tail(ui_req)
  /\ zoom' = ClampZoom(Head(ui_req).arg)
  /\ evQ' = Append(evQ, ResetClosure(Len(uiDoc.pages)))
  /\ resetFor' = Append(resetFor, [doc |-> uiDoc, zoom |-> ClampZoom(Head(ui_req).arg)])
  /\ UNCHANGED <<pureVars, resetDone, nZooms, utRet, reqd, serverVars, to_ui, blocked, uiDoc, uiUri, docGuard,
                 srcGuard, f1pc, f1msg, f2pc, f2job, uiThread, rtasks, stasks, pixbuf,
                 utpc, utRow, images, viewport, nClicks, nRenders, shownSeq, nShown>>

(* --------------------------- specifications --------------------------- *)
\* The zooms the window asks for, in tenths.
ZoomRequests == {-20, 40, 1}

Jumps == {"none", "position", "source", "url"}

ServerStep ==
  \/ \E h \in Handlers : EditIngest(h)
  \/ \E h \in Handlers : CompileSource(h)
  \/ \E h \in Handlers : CompileSourceGranted(h)
  \/ WorkerStart
  \/ WorkerFinish
  \/ \E h \in Handlers : AfterCompile(h)
  \/ \E h \in Handlers : ExportPdf(h)
  \/ \E h \in Handlers : ExportPdfGranted(h)

PreviewStep ==
  \/ F1Recv
  \/ F1JumpGranted
  \/ \E t \in stasks, hit \in BOOLEAN : ScrollTask(t, hit)
  \/ F2Render
  \/ \E t \in rtasks : RenderPage(t)
  \/ F2Click
  \/ F2ClickGranted
  \/ UiThreadStart
  \/ \E j \in Jumps : UiThreadFinish(j)
  \/ F2ClickResult
  \/ F2SourceGranted
  \/ F2ShowDone
  \/ UtPixbuf
  \/ UtEvent

\* The language server alone, in every configuration: text changes (of a text
\* that compiles to one page or to none, with no change range) and export
\* commands on both documents; no step of the preview is taken.
NextCoord ==
  \/ \E h \in Handlers, d \in Docs, np \in 0..1 : EditArrive(h, d, FALSE, np)
  \/ \E h \in Handlers, d \in Docs : ExportArrive(h, d)
  \/ ServerStep

SpecCoord == Init /\ [][NextCoord]_vars

\* The language server in every configuration with text changes that come with
\* a change range or without one, and export commands.
NextSourceChanged ==
  \/ \E h \in Handlers, d \in Docs, rng \in BOOLEAN, np \in 0..1 : EditArrive(h, d, rng, np)
  \/ \E h \in Handlers, d \in Docs : ExportArrive(h, d)
  \/ ServerStep

SpecSourceChanged == Init /\ [][NextSourceChanged]_vars

\* The language server with the World reads of its compilations: text changes
\* of one document in every configuration, reads that succeed or fail.
NextWorld ==
  \/ \E h \in Handlers, np \in 0..1 : EditArrive(h, "a", FALSE, np)
  \/ ServerStep
  \/ WorldRead
  \/ \E ok \in BOOLEAN : WorldReadDone(ok)

SpecWorld == Init /\ [][NextWorld]_vars

\* The server with its preview, export on type: text changes of one document,
\* clicks and page requests in the preview window.
InitPreview == Init /\ mode = "OnType" /\ pinned = None

NextPreview ==
  \/ \E h \in Handlers, rng \in BOOLEAN, np \in 0..MaxPages : EditArrive(h, "a", rng, np)
  \/ \E row \in 1..MaxPages : UtRowData(row)
  \/ \E k \in 1..MaxPages : UtClick(k)
  \/ ServerStep
  \/ PreviewStep

SpecPreview == InitPreview /\ [][NextPreview]_vars

(* ---------------- jump_to_first_change on its own --------------------- *)
\* The syntax nodes a cursor can be in, and what a page shows of them.
Nodes == {"x", "y"}
PageContents == SUBSET Nodes
\* Documents as far as the position search sees them: per page the nodes on it.
SearchDocs == UNION {[1..n -> PageContents] : n \in 0..MaxPages}

\* The smallest element of a non-empty set of page numbers.
FirstOf(S) == CHOOSE i \in S : \A j \in S : i <= j

\* typst_ide::jump_from_cursor(&document, &source, cursor) as called at
\* ui.rs:497: the first page, in page order, that shows the cursor's node.
JumpFromCursor(doc, node) ==
  LET hits == {i \in 1..Len(doc) : node \in doc[i]}
  IN  IF hits = {} THEN <<>> ELSE <<"new", FirstOf(hits)>>

\* A search that skips the pages equal to the old document's and falls back to
\* the old document's pages when the new ones show nothing.
FirstChangeTargetLocalized(old, new, cursor) ==
  LET changed(i) == i > Len(old) \/ i > Len(new) \/ old[i] # new[i]
      inNew == {i \in 1..Len(new) : changed(i) /\ cursor \in new[i]}
      inOld == {i \in 1..Len(old) : changed(i) /\ cursor \in old[i]}
  IN  IF inNew # {} THEN <<"new", FirstOf(inNew)>>
      ELSE IF inOld # {} THEN <<"old", FirstOf(inOld)>>
      ELSE <<>>

\* The position show_document + jump_to_first_change scroll to (ui.rs:465,
\* 481-499): the old document is replaced before the search, the search runs on
\* the new document alone.
FirstChangeTarget(old, new, cursor) == JumpFromCursor(new, cursor)

\* One new document with a change range arrives while old is shown.
JumpToFirstChange ==
  /\ ~firstChange.done
  /\ firstChange' = [firstChange EXCEPT
       !.target = FirstChangeTarget(firstChange.old, firstChange.new, firstChange.cursor),
       !.done = TRUE]
  /\ UNCHANGED <<serverVars, to_ui, blocked, uiVars, scrollCall, pageCall>>

InitFirstChange ==
  /\ InitServer /\ mode = "OnType" /\ pinned = None
  /\ to_ui = <<>>
  /\ blocked = FALSE
  /\ InitUi
  /\ firstChange \in [old : SearchDocs, new : SearchDocs, cursor : Nodes,
                      target : {<<>>}, done : {FALSE}]
  /\ scrollCall = NoScrollCall
  /\ pageCall = NoPageCall

NextFirstChange == JumpToFirstChange

SpecFirstChange == InitFirstChange /\ [][NextFirstChange]_vars

(* ------------------- scroll_in_window on its own ----------------------- *)
\* Lengths are whole numbers of a tenth of a pixel; image_scale is a whole factor.
PageHeights == {200, 300}
\* The documents as far as the list geometry sees them: the height of each page.
LayoutDocs == UNION {[1..n -> PageHeights] : n \in 1..MaxPages}
ImageScales == {1, 2}
\* Positions on a page, offsets of the list viewport (never positive) and
\* heights of the visible part of the list.
PointYs == {0, 50, 150}
ViewportYs == {0, -100, -300, -700}
VisibleHeights == {100, 200}

\* The place in the list of point y on page p (ui.rs:545-548); every page above
\* is taken to be as high as page p (the TODO at ui.rs:547).
ListY(heights, p, y, scale) ==
  y * scale + ListTop * 10 + (p - 1) * (heights[p] * scale + PageGap * 10)

\* A scroll_in_window that sets the viewport whether the target is visible or not.
ViewportYAlwaysSet(vy, vis, ypos) == 0 - (ypos - (3 * vis) \div 10)

\* The viewport offset after the closure of scroll_in_window ran (ui.rs:551-560).
ViewportYAfterScroll(vy, vis, ypos) ==
  LET current_ypos == IF vy < 0 THEN 0 - vy ELSE vy
  IN  IF ypos < current_ypos \/ ypos > current_ypos + vis
      THEN 0 - (ypos - (3 * vis) \div 10)
      ELSE vy

\* scroll_in_window is called with a position on a page of the document.
ScrollInWindow ==
  /\ ~scrollCall.done
  /\ scrollCall' = [scrollCall EXCEPT
       !.after = ViewportYAfterScroll(scrollCall.viewport_y, scrollCall.visible_height,
                   ListY(scrollCall.heights, scrollCall.page, scrollCall.y, scrollCall.scale)),
       !.done = TRUE]
  /\ UNCHANGED <<serverVars, to_ui, blocked, uiVars, firstChange, pageCall>>

InitScrollInWindow ==
  /\ InitServer /\ mode = "OnType" /\ pinned = None
  /\ to_ui = <<>>
  /\ blocked = FALSE
  /\ InitUi
  /\ firstChange = NoFirstChange
  /\ pageCall = NoPageCall
  /\ \E hs \in LayoutDocs, p \in 1..MaxPages :
       /\ p <= Len(hs)
       /\ scrollCall \in [heights : {hs}, page : {p}, y : PointYs, scale : ImageScales,
                          viewport_y : ViewportYs, visible_height : VisibleHeights,
                          after : {0}, done : {FALSE}]

NextScrollInWindow == ScrollInWindow

SpecScrollInWindow == InitScrollInWindow /\ [][NextScrollInWindow]_vars

(* --------------- the page search of jump_from_click on its own --------- *)
\* Where in the list the click went (listview_y).
ClickYs == {0, 20, 100, 260, 300, 520, 1500}

\* The loop of jump_from_click (ui.rs:290-308) from page i on, ypos being the
\* top of page i: the first page whose bottom lies below the click, with the
\* click's y relative to the top of that page; <<>> when the loop runs out.
RECURSIVE FindClickedPage(_, _, _, _, _)
FindClickedPage(heights, scale, ly, i, ypos) ==
  IF i > Len(heights) THEN <<>>
  ELSE IF ypos + heights[i] * scale > ly THEN <<i, ly - ypos>>
  ELSE FindClickedPage(heights, scale, ly, i + 1, ypos + heights[i] * scale + PageGap * 10)

\* jump_from_click looks for the page of a click (ui.rs:286-314).
JumpFromClickPage ==
  /\ ~pageCall.done
  /\ pageCall' = [pageCall EXCEPT
       !.found = FindClickedPage(pageCall.heights, pageCall.scale, pageCall.listview_y,
                                 1, ListTop * 10),
       !.done = TRUE]
  /\ UNCHANGED <<serverVars, to_ui, blocked, uiVars, firstChange, scrollCall>>

InitJumpFromClickPage ==
  /\ InitServer /\ mode = "OnType" /\ pinned = None
  /\ to_ui = <<>>
  /\ blocked = FALSE
  /\ InitUi
  /\ firstChange = NoFirstChange
  /\ scrollCall = NoScrollCall
  /\ pageCall \in [heights : LayoutDocs, scale : ImageScales, listview_y : ClickYs,
                   found : {<<>>}, done : {FALSE}]

NextJumpFromClickPage == JumpFromClickPage

SpecJumpFromClickPage == InitJumpFromClickPage /\ [][NextJumpFromClickPage]_vars

\* The server and the document intake of the preview, export on type: text
\* changes of one document; nobody clicks in the preview window or scrolls it.
NextIntake ==
  \/ \E h \in Handlers, rng \in BOOLEAN, np \in 0..MaxPages : EditArrive(h, "a", rng, np)
  \/ ServerStep
  \/ F1Recv
  \/ F1JumpGranted
  \/ \E t \in stasks, hit \in BOOLEAN : ScrollTask(t, hit)
  \/ UtEvent

SpecIntake == InitPreview /\ [][NextIntake]_vars

\* The server with the clicks in its preview: text changes of two documents,
\* each shown in turn, and clicks on the page shown.
NextClick ==
  \/ \E h \in Handlers, d \in Docs : EditArrive(h, d, FALSE, 1)
  \/ ServerStep
  \/ F1Recv
  \/ \E k \in 1..MaxPages : UtClick(k)
  \/ F2Click
  \/ F2ClickGranted
  \/ UiThreadStart
  \/ \E j \in Jumps : UiThreadFinish(j)
  \/ F2ClickResult
  \/ F2SourceGranted
  \/ F2ShowDone
  \/ UtEvent

SpecClick == InitPreview /\ [][NextClick]_vars

\* The server with the page cache of its preview: text changes of one document
\* that compile to documents of different lengths, the window asking for rows
\* and for another zoom.
NextPages ==
  \/ \E h \in Handlers, np \in 0..MaxPages : EditArrive(h, "a", FALSE, np)
  \/ ServerStep
  \/ F1Recv
  \/ F2Render
  \/ F2Zoom
  \/ \E t \in rtasks : RenderPage(t)
  \/ \E row \in 1..MaxPages : UtRowData(row)
  \/ \E z \in ZoomRequests : UtZoom(z)
  \/ UtPixbuf
  \/ UtEvent

SpecPages == InitPreview /\ [][NextPages]_vars

(* ----------------------------- properties ----------------------------- *)
\* The handlers that have been called, and those of them that have returned.
Called == 1..nTrig
Returned(h) == hpc[h] \in {"ok", "err"}
\* The handlers whose compile_source has returned.
Compiled(h) == hpc[h] \in {"got", "export", "xwait", "ok", "err"}
\* The jobs the server's TypstThread holds: the one it runs, then the channel.
Jobs == running \o queue

\* C1: at most one call into the compiler engine executes at any time, the
\* preview's click query included.
C1_OneEngineCall == ~(running # <<>> /\ uiThread = "running")

Quiet ==
  /\ nTrig >= 1
  /\ \A h \in Called : Returned(h)
  /\ to_ui = <<>>
  /\ f1pc = "recv"

\* The result of compiling the last trigger alone: the sources are what the last
\* edit left.
LastAlone(d) == Compile([uri |-> d, ver |-> source[d].ver, np |-> source[d].np])

\* C3: once all handlers have finished, the published diagnostics and the
\* document the preview holds are those of the last trigger compiled alone.
C3_LastTriggerWins ==
  Quiet =>
    /\ lastPub # <<>>
    /\ lastPub[1].diag = LastAlone("a").diag
    /\ LastAlone("a").doc # NoDoc => uiDoc = LastAlone("a").doc[1]

\* C4: what is published is monotone in submission order: neither the
\* diagnostics nor the document of a job are published after those of a job
\* submitted later.
C4_MonotonePublication ==
  [][/\ (lastPub # <<>> /\ lastPub' # lastPub) => lastPub'[1].sub >= lastPub[1].sub
     /\ nSent' # nSent => sentSub' >= sentSub]_vars

\* A step of the program, as opposed to one of its user.
ProgramStep == ServerStep \/ PreviewStep

\* C5: when edits stop arriving the program comes to rest only idle: every
\* handler has returned (and so published the result it got) and the worker
\* holds no job.
C5_RestsOnlyIdle ==
  (~ENABLED ProgramStep) => (Jobs = <<>> /\ \A h \in Called : Returned(h))

\* C6: the worker executes jobs strictly in the order it accepted them, also
\* across main documents: the job it runs is the oldest not yet done, and the
\* channel holds the following ones in order.
C6_AcceptanceOrder ==
  \A i \in 1..Len(Jobs) : Jobs[i].sub = nDone + i

\* The second job accepted runs, the first one is done, and they are of
\* different main documents.
C6_Witness ==
  /\ running # <<>>
  /\ running[1].sub = 2
  /\ \E h \in Handlers : hsub[h] = 1 /\ hpc[h] = "got" /\ huri[h] # running[1].uri

OneResult(doc) == \A i \in 1..Len(doc.pages) : doc.pages[i] = <<doc.uri, doc.ver, i>>

\* C8: the preview's document is replaced as a whole: the document the preview
\* holds, the snapshot every render task works on and the snapshot of the click
\* lookup are each the pages of one compile result, never a mix of two.
C8_WholeSnapshots ==
  /\ OneResult(uiDoc)
  /\ \A t \in rtasks : OneResult(t.document)
  /\ \A t \in stasks : OneResult(t.document)
  /\ f2job # <<>> => OneResult(f2job[1].document)
  /\ \A i \in 1..Len(pixbuf) : \E d \in Docs, v \in 0..edits, k \in 1..MaxPages :
       pixbuf[i].page = <<d, v, k>>

\* A render task still works on its snapshot of an older document after
\* show_document has installed a newer one of at least as many pages.
C8_Witness ==
  \E t \in rtasks :
    /\ t.document.pages # <<>>
    /\ uiDoc.ver > t.document.ver
    /\ Len(uiDoc.pages) >= Len(t.document.pages)

\* C9: the documents show_document installs are an order-preserving
\* subsequence of the messages sent on to_ui: the channel holds the messages
\* not yet received in the order sent, fut1 installs the newest message of the
\* channel and drops only the older ones queued with it, and when the channel
\* is empty and fut1 waits for a message the installed document is that of the
\* last message sent.
C9_MostRecentInstalled ==
  /\ [](/\ \A i \in 1..Len(to_ui) : to_ui[i].seq = nSent - Len(to_ui) + i
        /\ shownSeq <= nSent - Len(to_ui)
        /\ (to_ui = <<>> /\ f1pc = "recv" /\ nSent > 0) => shownSeq = nSent)
  /\ [][shownSeq' # shownSeq =>
          /\ to_ui # <<>>
          /\ shownSeq' = to_ui[Len(to_ui)].seq
          /\ shownSeq' > shownSeq
          /\ uiDoc' = to_ui[Len(to_ui)].document
          /\ uiUri' = to_ui[Len(to_ui)].source_uri
          /\ to_ui' = <<>>]_vars

\* Two messages were sent, fut1 skipped the first for the second and is idle.
C9_Witness ==
  /\ nSent = 2 /\ nShown = 1 /\ shownSeq = 2
  /\ to_ui = <<>> /\ f1pc = "recv"

\* What of the preview a new document changes: the channel, Ui.document,
\* Ui.source_uri, the page cache and the closures posted to the event loop
\* (reset_all, the scroll to the first change).
PreviewOfDocument == <<to_ui, nSent, uiDoc, uiUri, images, viewport, evQ, stasks>>

\* C10: a handler whose compile_source returned no document sends no
\* NewDocumentMessage and changes nothing of the preview: it returns without
\* calling export_pdf.
C10_NoDocumentKeepsPreview ==
  [][\A h \in Handlers :
       (hpc[h] = "got" /\ hpc'[h] # "got" /\ hres[h].doc = NoDoc) =>
         /\ hpc'[h] \in {"ok", "err"}
         /\ UNCHANGED PreviewOfDocument]_vars

\* The preview shows the document of the first edit, installed and reset, after
\* the handler of a later edit that does not compile has returned.
C10_Witness ==
  \E h \in Handlers :
    /\ Returned(h) /\ source[huri[h]].np = 0 /\ source[huri[h]].ver > uiDoc.ver
    /\ \A g \in Called : Returned(g)
    /\ uiDoc.pages # <<>> /\ shownSeq = nSent /\ Len(images) = Len(uiDoc.pages)
    /\ to_ui = <<>> /\ evQ = <<>>

\* C11: a position search that finds nothing scrolls nothing. A document taken
\* in without a change range spawns no search; a search task that ends posts
\* either nothing or the scroll to the position it found in its document; and
\* the viewport offset is written only by such a scroll closure, never by the
\* reset a new document posts.
C11_NoScrollWithoutMatch ==
  [][/\ viewport' # viewport =>
          /\ evQ # <<>> /\ Head(evQ).kind = "scroll"
          /\ viewport' = Head(evQ).tgt /\ viewport' # <<>>
     /\ \A t \in stasks : stasks' = stasks \ {t} =>
          evQ' \in {evQ, Append(evQ, ScrollClosure(t.document))}
     /\ (shownSeq' # shownSeq /\ ~to_ui[Len(to_ui)].range) =>
          /\ stasks' = stasks /\ f1pc' = "recv"
          /\ evQ' = Append(evQ, ResetClosure(Len(uiDoc'.pages)))]_vars

\* The preview was scrolled for the first document; a second document came
\* without a change range, was installed and reset the page model, and the
\* viewport is still where the first scroll put it.
C11_Witness ==
  /\ viewport # <<>> /\ viewport[2] < uiDoc.ver
  /\ nSent = 2 /\ shownSeq = 2 /\ nShown = 2
  /\ evQ = <<>> /\ stasks = {} /\ f1pc = "recv"

\* C12 (as the specification states it): with a prior document known, the
\* change range is searched only in the pages that differ from the prior
\* document, in the new pages first and then in the old ones.
C12_ChangeLocalization ==
  (firstChange.done /\ firstChange # NoFirstChange /\ firstChange.old # <<>>) =>
    firstChange.target =
      FirstChangeTargetLocalized(firstChange.old, firstChange.new, firstChange.cursor)

\* C12 (as the code has it): the change range is searched in all pages of the
\* new document, in page order, whether they changed or not; the old document
\* is not searched, so a range the new document does not show gives no target.
C12_SearchesNewDocument ==
  (firstChange.done /\ firstChange # NoFirstChange) =>
    LET new == firstChange.new
        c == firstChange.cursor
        t == firstChange.target
    IN  IF \E i \in 1..Len(new) : c \in new[i]
        THEN /\ t # <<>> /\ t[1] = "new" /\ t[2] \in 1..Len(new)
             /\ c \in new[t[2]]
             /\ \A j \in 1..(t[2] - 1) : c \notin new[j]
        ELSE t = <<>>

\* A pure deletion: the node of the range was on a page of the old document
\* and is on no page of the new one; the search has run and gave no target.
C12_Witness ==
  /\ firstChange.done /\ firstChange # NoFirstChange
  /\ \E i \in 1..Len(firstChange.old) : firstChange.cursor \in firstChange.old[i]
  /\ \A i \in 1..Len(firstChange.new) : firstChange.cursor \notin firstChange.new[i]
  /\ firstChange.new # <<>>
  /\ firstChange.target = <<>>

\* C13: a job sees one workspace for its whole duration: from the moment
\* thread_with_world built it until the worker has finished it, the workspace
\* is the one its main-source snapshot was taken from and its read guard is
\* out, on the server's worker and on the preview's; and no step taken while a
\* job is in flight changes the workspace.
C13_JobSeesOneWorkspace ==
  /\ \A i \in 1..Len(Jobs) :
       /\ <<"job", Jobs[i].h>> \in wsReaders
       /\ source[Jobs[i].uri] = [ver |-> Jobs[i].ver, np |-> Jobs[i].np]
  /\ uiThread \in {"queued", "running"} =>
       /\ <<"uijob", 0>> \in wsReaders
       /\ source[f2job[1].uri].ver = f2job[1].srcver

\* The preview's worker runs a click query while a text change waits for the
\* workspace: the edit arrived after the job was built and has not been applied.
C13_Witness ==
  /\ uiThread = "running"
  /\ \E h \in Handlers : hpc[h] = "wwait" /\ hnp[h] # source[huri[h]].np
  /\ wsQ # <<>>

\* C14: the task of Ui::run never blocks its thread on a lock: neither loop
\* is suspended at an await with a guard of Ui.document or Ui.source_uri in
\* hand while the other loop locks that mutex, so the two loops never
\* deadlock each other.
C14_NeverBlocksOnLock ==
  /\ ~blocked
  /\ f1pc # "lock"
  /\ f2pc # "lock"

FileErrorResult(h) ==
  /\ hres[h].doc = NoDoc
  /\ Len(hres[h].diag) = 3 /\ hres[h].diag[3] = "file"

\* A failed read is an error value inside the job: the worker is not aborted
\* by it and the job's result carries it as a diagnostic.
ErrorStaysInJob ==
  /\ (running # <<>> /\ world.err) => (running[1].h \in failed /\ (world.io \/ ENABLED WorkerFinish))
  /\ \A h \in failed :
       /\ hpc[h] \in {"wait", "got", "ok", "err"}
       /\ hpc[h] = "got" => FileErrorResult(h)

\* The operation that resumes with the result of such a job publishes its diagnostics.
ErrorIsPublished ==
  \A h \in failed :
    (hpc[h] = "got" /\ hpc'[h] # "got") =>
      lastPub' = <<[sub |-> hsub[h], diag |-> hres[h].diag]>>

Cached == {row \in 1..Len(images) : images[row] # <<>>}
\* A reset of the page cache is posted and has not run yet.
ResetPending == \E i \in 1..Len(evQ) : evQ[i].kind = "reset"
\* This step is a call of row_data that sends a request.
Requests == nRenders' = nRenders + 1
\* This step is a call of row_data that returns at once.
Returns == utRet' # utRet /\ utpc = "idle" /\ utpc' = "idle"

\* C17: the page cache is keyed by page index, filled on demand and emptied as
\* a whole: between two resets row_data(row) sends Render(row) at most once for
\* a row and then answers from the cache; for a row outside the cache it sends
\* nothing and returns nothing; every new document and every zoom change posts
\* a reset to the page count of the document then current, and the reset leaves
\* that many empty entries.
C17_IndexKeyedCache ==
  /\ [](/\ Cached \subseteq reqd
        /\ reqd \subseteq 1..Len(images)
        /\ (~ResetPending /\ (\A i \in 1..Len(ui_req) : ui_req[i].kind # "Zoom"))
             => Len(images) = Len(uiDoc.pages))
  /\ [][/\ Requests =>
             /\ utRow' \in 1..Len(images) /\ images[utRow'] = <<>>
             /\ utRow' \notin reqd /\ reqd' = reqd \cup {utRow'}
             /\ ui_req' = Append(ui_req, [kind |-> "Render", arg |-> utRow'])
        /\ Returns =>
             /\ ui_req' = ui_req /\ images' = images
             /\ utRet'.data = IF utRet'.row \in Cached THEN images[utRet'.row] ELSE <<>>
             /\ utRet'.row \notin 1..Len(images) \/ utRet'.row \in Cached
        /\ shownSeq' # shownSeq =>
             evQ' = Append(evQ, [kind |-> "reset", n |-> Len(uiDoc'.pages), tgt |-> <<>>])
        /\ (zoom' # zoom \/ (ui_req # <<>> /\ Head(ui_req).kind = "Zoom" /\ ui_req' = Tail(ui_req))) =>
             evQ' = Append(evQ, [kind |-> "reset", n |-> Len(uiDoc.pages), tgt |-> <<>>])
        /\ (evQ # <<>> /\ Head(evQ).kind = "reset" /\ evQ' = Tail(evQ)) =>
             /\ images' = [i \in 1..Head(evQ).n |-> <<>>]
             /\ reqd' = {}]_vars

\* After a zoom change emptied the cache of a two-page document, a page was
\* requested again, rendered at the new zoom and cached, and a later call for
\* that row was answered from the cache; a call for a row past the end of a
\* shorter cache is the other case.
C17_Witness ==
  /\ zoom # InitialZoom /\ nZooms = 1
  /\ Len(images) = 2 /\ Len(uiDoc.pages) = 2
  /\ utRet.row \in Cached /\ utRet.data = images[utRet.row]
  /\ utRet.data[1].zoom = zoom
  /\ nRenders = 2 /\ utpc = "idle" /\ ui_req = <<>>

\* C18: every Render(page_index) is served from a document snapshot that has
\* that page: no render_page task is spawned with a page index past the last
\* page of its document.
C18_RenderInsideDocument ==
  \A t \in rtasks : t.page \in 1..Len(t.document.pages)

\* A render request that can still be answered: its pixel buffer is on the
\* channel, or a task that has its page is running, or the request is still to
\* be received while the document has the page.
Answerable ==
  \/ pixbuf # <<>>
  \/ \E t \in rtasks : t.page \in 1..Len(t.document.pages)
  \/ /\ \E i \in 1..Len(ui_req) : ui_req[i] = [kind |-> "Render", arg |-> utRow]
     /\ ~blocked

\* C19: every render request is answered in the end: while row_data blocks the
\* event-loop thread waiting for a pixel buffer, a pixel buffer is on its way.
C19_RenderAnswered == utpc = "wait" => Answerable

\* The Render requests that are under way: sent and not received, being
\* rendered, or rendered and not yet taken from the pixel-buffer channel.
Outstanding ==
  Cardinality({i \in 1..Len(ui_req) : ui_req[i].kind = "Render"})
    + Cardinality(rtasks) + Len(pixbuf)

\* C20: requests and pixel buffers pair up on the one unlabelled channel: at
\* most one Render request is under way, only while row_data waits for it and
\* for the row it waits for, and the pixel buffer row_data(row) receives and
\* caches at row is the rasterization of page row.
C20_RequestResponsePairing ==
  /\ Outstanding <= 1
  /\ Outstanding = 1 => utpc = "wait"
  /\ \A i \in 1..Len(ui_req) : ui_req[i].kind = "Render" => ui_req[i].arg = utRow
  /\ \A t \in rtasks : t.page = utRow
  /\ \A i \in 1..Len(pixbuf) : pixbuf[i].page[3] = utRow
  /\ \A row \in Cached : images[row][1].page[3] = row

\* The second request, for row 2, has been rendered and its pixel buffer waits
\* on the channel for row_data; row 1 is in the cache from the first request.
C20_Witness ==
  /\ utpc = "wait" /\ utRow = 2 /\ nRenders = 2
  /\ pixbuf # <<>> /\ Head(pixbuf).page[3] = 2
  /\ 1 \in Cached

\* The documents and zooms an image in the cache may be from: those the reset
\* that ran last was posted for, and those of the resets posted since.
NotOlder == {resetDone} \cup {resetFor[i] : i \in 1..Len(resetFor)}

\* The image cached for row is the rendering of that page of document doc.
RenderedFrom(row, doc) == row <= Len(doc.pages) /\ images[row][1].page = doc.pages[row]

\* C21: no stale page image survives: a Render request is rendered from the
\* document and the zoom current when it is handled, and every image in the
\* cache is from the document (and the zoom) the reset processed last was
\* posted for, or from a later one; the reset the event loop runs clears every
\* image cached before it.
C21_NoStaleImage ==
  /\ [](\A row \in Cached :
          /\ \E s \in NotOlder : RenderedFrom(row, s.doc)
          /\ \E s \in NotOlder : images[row][1].zoom = s.zoom)
  /\ [][/\ rtasks' # rtasks /\ rtasks \subseteq rtasks' =>
             \A t \in rtasks' \ rtasks : t.document = uiDoc /\ t.zoom = zoom
        /\ (evQ # <<>> /\ Head(evQ).kind = "reset" /\ evQ' = Tail(evQ)) =>
             \A row \in 1..Len(images') : images'[row] = <<>>]_vars

\* The cache holds an image of a document that is no longer the current one:
\* it was requested before the new document arrived, and the reset posted for
\* the new document has not run yet.
C21_Witness ==
  /\ \E row \in Cached : ~RenderedFrom(row, uiDoc) /\ RenderedFrom(row, resetDone.doc)
  /\ Len(resetFor) = 1 /\ resetFor[1].doc = uiDoc
  /\ utpc = "idle"

\* C22: scroll actions follow document order: the scroll target computed for
\* the change range of one version is not applied after the target of a later
\* version has been applied, nor after a later version has replaced the
\* document shown.
C22_ScrollsInDocumentOrder ==
  [][viewport' # viewport =>
       /\ viewport # <<>> => viewport'[2] >= viewport[2]
       /\ viewport'[2] >= uiDoc.ver]_vars

\* C23: throughout one jump_from_click the document the click is mapped on
\* and the source uri the world is built with and the jump is resolved with
\* are those of one NewDocumentMessage: the uri the job got is the uri of its
\* document, and as long as the click is being processed Ui.document and
\* Ui.source_uri are still that pair.
C23_ClickSeesOnePair ==
  f2job # <<>> =>
    /\ f2job[1].uri = f2job[1].document.uri
    /\ uiDoc = f2job[1].document
    /\ uiUri = f2job[1].document.uri

\* A click on document "a" is with the worker while the document of "b" has
\* been received: show_document is about to install it.
C23_Witness ==
  /\ f2pc = "crun" /\ f2job[1].document.uri = "a"
  /\ f1pc = "lock" /\ f1msg[1].source_uri = "b"

\* C24: scroll_in_window changes the viewport only when the target is not
\* visible already: with the target y = point.y*scale + 5 + page_index *
\* (page_height*scale + 10) in the list, the viewport offset stays as it is when
\* current <= y <= current + visible_height, and otherwise the target comes to
\* lie 30% of the visible height below the top of the viewport.
C24_ScrollsOnlyWhenNotVisible ==
  (scrollCall.done /\ scrollCall # NoScrollCall) =>
    LET c == scrollCall
        y == c.y * c.scale + 50 + (c.page - 1) * (c.heights[c.page] * c.scale + 100)
        current == IF c.viewport_y < 0 THEN 0 - c.viewport_y ELSE c.viewport_y
    IN  IF current <= y /\ y <= current + c.visible_height
        THEN c.after = c.viewport_y
        ELSE 10 * (y + c.after) = 3 * c.visible_height

\* A target on the second page was out of sight and has been scrolled to.
C24_Witness ==
  /\ scrollCall.done /\ scrollCall # NoScrollCall
  /\ scrollCall.page = 2
  /\ scrollCall.after # scrollCall.viewport_y
  /\ scrollCall.after < 0

\* The top and the bottom edge of page i in the list: pages start at offset 5
\* and have a gap of 10 between them.
RECURSIVE PageTop(_, _, _)
PageTop(heights, scale, i) ==
  IF i = 1 THEN 50 ELSE PageTop(heights, scale, i - 1) + heights[i - 1] * scale + 100
PageBottom(heights, scale, i) == PageTop(heights, scale, i) + heights[i] * scale

\* C25: jump_from_click attributes a click to one page or to none: to the
\* first page in order whose bottom edge lies strictly below the click, and
\* then the y handed to the position mapper is on that page,
\* 0 <= page_y < page height * image_scale; a click below the last page is
\* attributed to no page.
C25_ClickOnOnePage ==
  (pageCall.done /\ pageCall # NoPageCall) =>
    LET c == pageCall
        below == {i \in 1..Len(c.heights) : PageBottom(c.heights, c.scale, i) > c.listview_y}
    IN  IF below = {}
        THEN c.found = <<>>
        ELSE /\ c.found # <<>>
             /\ c.found[1] \in below /\ \A i \in below : c.found[1] <= i
             /\ 0 <= c.found[2]
             /\ c.found[2] < c.heights[c.found[1]] * c.scale


\* The handlers of text changes that are past on_source_changed's match.
EditHandlers == {h \in Handlers : hop[h] \in {"diag_export", "diag"}}

\* The configurations in which typing exports: OnType, and OnPinnedMainType
\* with a pinned main document.
ExportsOnType == mode = "OnType" \/ (mode = "OnPinnedMainType" /\ pinned # None)

\* The document of which on_source_changed runs its operation when d changed.
TargetOf(d) == IF mode # "OnType" /\ pinned # None THEN pinned ELSE d

\* C26: on_source_changed exports only in the export-on-type modes: OnType
\* compiles the changed document and sends it to the preview with the change
\* range, OnPinnedMainType does so for the pinned main document and without one
\* only publishes the diagnostics of the changed document, every other mode only
\* publishes diagnostics (of the pinned main document if any, else of the
\* changed one), sends nothing to the preview and gives it no range to scroll to.
C26_ExportsOnlyOnType ==
  /\ [](/\ \A h \in EditHandlers :
             /\ hop[h] = "diag_export" <=> ExportsOnType
             /\ hop[h] = "diag" => hpc[h] \notin {"export", "xwait"}
        /\ ~ExportsOnType => \A i \in 1..Len(to_ui) : ~to_ui[i].range)
  /\ [][\A h \in Handlers :
          \* the match: the document the operation is run on
          /\ (hop[h] = None /\ hop'[h] \in {"diag_export", "diag"}) =>
               \E d \in Docs : /\ source'[d] # source[d]
                               /\ huri'[h] = TargetOf(d)
          \* the operation keeps its document and its range until it returns
          /\ (h \in EditHandlers /\ hpc'[h] \notin {"ok", "err"}) =>
               huri'[h] = huri[h] /\ hrange'[h] = hrange[h] /\ hop'[h] = hop[h]
          \* the diagnostics published are those of that document
          /\ (h \in EditHandlers /\ hpc[h] = "got" /\ hpc'[h] # "got") =>
               /\ lastPub' = <<[sub |-> hsub[h], diag |-> hres[h].diag]>>
               /\ hres[h].diag[1] = huri[h]
               /\ (hop[h] = "diag" => hpc'[h] = "ok" /\ to_ui' = to_ui)
               /\ (hop[h] = "diag_export" /\ hres[h].doc # NoDoc) => hpc'[h] = "export"
          \* the export sends the compiled document with the change range
          /\ (h \in EditHandlers /\ hpc[h] \in {"export", "xwait"} /\ hpc'[h] = "ok") =>
               /\ to_ui' = Append(to_ui, to_ui'[Len(to_ui')])
               /\ to_ui'[Len(to_ui')].document = hres[h].doc[1]
               /\ to_ui'[Len(to_ui')].document.uri = huri[h]
               /\ to_ui'[Len(to_ui')].source_uri = huri[h]
               /\ to_ui'[Len(to_ui')].range = hrange[h]]_vars

\* With "a" pinned as main document in mode OnPinnedMainType, an edit of "b"
\* that came with a change range has sent the document of "a" with the range.
C26_Witness ==
  /\ mode = "OnPinnedMainType" /\ pinned = "a"
  /\ source["b"].ver > 0 /\ source["a"].ver = 0
  /\ \E i \in 1..Len(to_ui) : to_ui[i].range /\ to_ui[i].source_uri = "a"
                              /\ to_ui[i].document.uri = "a"
  /\ lastPub # <<>> /\ lastPub[1].diag[1] = "a"

\* The zooms of the interval [0.3, 3.0], in tenths.
ZoomInterval == MinZoom..MaxZoom

\* C27: the preview zoom is always within [0.3, 3.0]: it starts at 1.0, changes
\* only when a Zoom request is handled, is then min(max(|z|, 0.3), 3.0) of that
\* request's value z, and every render (task, pixel buffer, cached image) uses
\* a zoom of the interval.
C27_ZoomWithinInterval ==
  /\ zoom = 10
  /\ [](/\ zoom \in ZoomInterval
        /\ \A t \in rtasks : t.zoom \in ZoomInterval
        /\ \A i \in 1..Len(pixbuf) : pixbuf[i].zoom \in ZoomInterval
        /\ \A row \in Cached : images[row][1].zoom \in ZoomInterval)
  /\ [][LET handled == ui_req # <<>> /\ Head(ui_req).kind = "Zoom" /\ ui_req' = Tail(ui_req)
            z == Head(ui_req).arg
            abs == IF z < 0 THEN 0 - z ELSE z
        IN  /\ zoom' # zoom => handled
            /\ handled => zoom' = (IF abs < 3 THEN 3 ELSE IF abs > 30 THEN 30 ELSE abs)
            /\ (rtasks' # rtasks /\ rtasks \subseteq rtasks') =>
                 \A t \in rtasks' \ rtasks : t.zoom = zoom]_vars

\* Two Zoom requests, of 4.0 and then of 0.1, have been handled: the zoom is
\* 0.3 and a page is being rendered with it.
C27_Witness ==
  /\ nZooms = 2 /\ ui_req = <<>>
  /\ Len(resetFor) >= 2
  /\ resetFor[Len(resetFor) - 1].zoom = 30
  /\ resetFor[Len(resetFor)].zoom = 3
  /\ zoom = 3
  /\ \E t \in rtasks : t.zoom = 3
====
